---------------------------- MODULE Spec2Model ----------------------------
(***************************************************************************)
(* Model of scripts_plot_hash_bucket_histograms.py: the loader of the      *)
(* per-algorithm bucket counts, the occupancy histogram, the Poisson       *)
(* expectation, the two renderers and the driver (main).                   *)
(*                                                                         *)
(* numpy arrays are sequences (index i of the array is element i+1 of the  *)
(* sequence); Python strings are sequences of code points; an optional     *)
(* value (None or v) is the empty sequence or <<v>>.                       *)
(***************************************************************************)
EXTENDS Integers, Sequences, FiniteSets, TLC

(***************************************************************************)
(* Bounds of the model.                                                    *)
(***************************************************************************)
MaxFiles == 2      \* metadata files in the results directory
MaxBuckets == 1    \* entries of a counts file read by the driver
MaxCount == 1      \* largest per-bucket count
MaxHistLen == 3    \* entries of a counts array given to compute_hist
MaxHistCount == 3  \* largest count of a counts array given to compute_hist
MaxWords == 1      \* 4-byte words of a raw counts file given to the loader
MantBits == 3      \* significand bits of the floating-point format
MaxPoissonK == 2   \* largest max_k given to poisson_expected_counts
MaxPoissonN == 3   \* largest num_buckets and num_inputs of a Poisson curve

(***************************************************************************)
(* Generic helpers.                                                        *)
(***************************************************************************)
MinOf(a, b) == IF a < b THEN a ELSE b
MaxOf(a, b) == IF a > b THEN a ELSE b

RECURSIVE SeqSum(_)
SeqSum(s) == IF s = <<>> THEN 0 ELSE Head(s) + SeqSum(Tail(s))

RECURSIVE SeqMax(_)
SeqMax(s) == IF Len(s) = 1 THEN s[1] ELSE MaxOf(Head(s), SeqMax(Tail(s)))

RECURSIVE SeqMin(_)
SeqMin(s) == IF Len(s) = 1 THEN s[1] ELSE MinOf(Head(s), SeqMin(Tail(s)))

RECURSIVE Pow2(_)
Pow2(n) == IF n = 0 THEN 1 ELSE 2 * Pow2(n - 1)

SeqsUpTo(S, lo, hi) == UNION {[1..n -> S] : n \in lo..hi}

\* a[:stop] of Python: a negative stop counts from the end
PySliceTo(a, stop) ==
    LET s == IF stop < 0 THEN MaxOf(0, Len(a) + stop) ELSE MinOf(stop, Len(a))
    IN  SubSeq(a, 1, s)

\* np.arange(0, n)
Arange(n) == [i \in 1..MaxOf(n, 0) |-> i - 1]

(***************************************************************************)
(* Python str: lower(), startswith(), isalnum() on Latin-1 code points.    *)
(***************************************************************************)
LowerChar(c) ==
    IF (c \in 65..90) \/ (c \in 192..214) \/ (c \in 216..222) THEN c + 32 ELSE c

Lower(s) == [i \in 1..Len(s) |-> LowerChar(s[i])]

StartsWith(s, prefix) ==
    /\ Len(s) >= Len(prefix)
    /\ SubSeq(s, 1, Len(prefix)) = prefix

IsAlnum(c) ==
    \/ c \in 48..57
    \/ c \in 65..90
    \/ c \in 97..122
    \/ c \in {170, 178, 179, 181, 185, 186, 188, 189, 190}
    \/ c \in 192..214
    \/ c \in 216..246
    \/ c \in 248..255

StrLittle == <<108, 105, 116, 116, 108, 101>>     \* "little"
StrBig == <<98, 105, 103>>                        \* "big"
StrKeep == <<46, 95, 45>>                         \* "._-"
StrHist == <<104, 105, 115, 116, 95>>             \* "hist_"
StrPng == <<46, 112, 110, 103>>                   \* ".png"
StrOverlayPng ==                                  \* "hist_overlay.png"
    <<104, 105, 115, 116, 95, 111, 118, 101, 114, 108, 97, 121, 46, 112, 110, 103>>

InStr(c, s) == \E i \in 1..Len(s) : s[i] = c

(***************************************************************************)
(* sanitize_filename                                                       *)
(***************************************************************************)
SanitizeFilename(s) ==
    [i \in 1..Len(s) |-> IF IsAlnum(s[i]) \/ InStr(s[i], StrKeep) THEN s[i] ELSE 95]

(***************************************************************************)
(* load_algorithm                                                          *)
(***************************************************************************)
\* meta.get("endianness", "little"): the field is <<>> when the key is missing
EndiannessText(meta) ==
    IF meta.endianness = <<>> THEN StrLittle ELSE meta.endianness[1]

\* TRUE when the dtype chosen for the counts file is big-endian: "<i4", ">i4",
\* or np.int32, which is the byte order of the host
DtypeBig(meta, hostBig) ==
    IF StartsWith(Lower(EndiannessText(meta)), StrLittle) THEN FALSE
    ELSE IF StartsWith(Lower(EndiannessText(meta)), StrBig) THEN TRUE
    ELSE hostBig

\* one signed 32-bit integer from four bytes, most significant byte first
Int32Of(b3, b2, b1, b0) ==
    (IF b3 >= 128 THEN b3 - 256 ELSE b3) * 16777216 + b2 * 65536 + b1 * 256 + b0

DecodeWord(w, big) ==
    IF big THEN Int32Of(w[1], w[2], w[3], w[4]) ELSE Int32Of(w[4], w[3], w[2], w[1])

\* np.fromfile(counts_file, dtype): whole items only
FromFile(bin, big) ==
    [i \in 1..(Len(bin) \div 4) |-> DecodeWord(SubSeq(bin, 4 * i - 3, 4 * i), big)]

LoadAlgorithmNoCheck(meta_path, meta, bin, hostBig) ==
    [ok |-> TRUE, meta |-> meta, counts |-> FromFile(bin, DtypeBig(meta, hostBig))]

LoadAlgorithm(meta_path, meta, bin, hostBig) ==
    LET counts == FromFile(bin, DtypeBig(meta, hostBig))
    IN  IF Len(counts) # meta.numBuckets
        THEN [ok |-> FALSE,
              error |-> [exc |-> "ValueError", size |-> Len(counts),
                         numBuckets |-> meta.numBuckets, path |-> meta_path]]
        ELSE [ok |-> TRUE, meta |-> meta, counts |-> counts]

(***************************************************************************)
(* compute_hist                                                            *)
(***************************************************************************)
BincountDropLast(x) ==
    IF x = <<>> THEN <<>>
    ELSE [i \in 1..SeqMax(x) |-> Cardinality({j \in 1..Len(x) : x[j] = i - 1})]

\* np.bincount(x) for non-negative x: length max(x)+1, empty for an empty x
Bincount(x) ==
    IF x = <<>> THEN <<>>
    ELSE [i \in 1..(SeqMax(x) + 1) |-> Cardinality({j \in 1..Len(x) : x[j] = i - 1})]

ComputeHistFold(counts, max_k) ==
    LET hist == Bincount(counts)
        mk == IF max_k = <<>> THEN Len(hist) - 1 ELSE MinOf(max_k[1], Len(hist) - 1)
        y == PySliceTo(hist, mk + 1)
    IN  [ok |-> TRUE, k |-> Arange(mk + 1),
         y |-> [i \in 1..Len(y) |->
                  IF i = Len(y) THEN y[i] + SeqSum(hist) - SeqSum(y) ELSE y[i]]]

ComputeHist(counts, max_k) ==
    IF \E j \in 1..Len(counts) : counts[j] < 0
    THEN [ok |-> FALSE, error |-> [exc |-> "ValueError", what |-> "bincount"]]
    ELSE LET hist == Bincount(counts)
             mk == IF max_k = <<>> THEN Len(hist) - 1
                   ELSE MinOf(max_k[1], Len(hist) - 1)
         IN  [ok |-> TRUE, k |-> Arange(mk + 1), y |-> PySliceTo(hist, mk + 1)]


(***************************************************************************)
(* plot_per_algorithm and plot_overlay.  An image is the record of what    *)
(* was drawn into it; the Poisson curve is recorded by the arguments of    *)
(* the poisson_expected_counts call that produced it.                      *)
(***************************************************************************)
PerAlgorithmName(alg) == StrHist \o SanitizeFilename(alg) \o StrPng

PlotPerAlgorithm(meta, k, y) ==
    IF meta.numBuckets = 0
    THEN [ok |-> FALSE, error |-> [exc |-> "ZeroDivisionError", what |-> "lam"]]
    ELSE IF k = <<>>
    THEN [ok |-> FALSE, error |-> [exc |-> "ValueError", what |-> "k.max"]]
    ELSE [ok |-> TRUE,
          name |-> PerAlgorithmName(meta.algorithm),
          image |-> [kind |-> "per_algorithm",
                     alg |-> meta.algorithm,
                     numInputs |-> meta.numInputs,
                     numBuckets |-> meta.numBuckets,
                     k |-> k, y |-> y,
                     poisson |-> [max_k |-> SeqMax(k),
                                  lam |-> <<meta.numInputs, meta.numBuckets>>,
                                  num_buckets |-> meta.numBuckets]]]

\* y / y.sum(): each quotient is kept as the pair it is the quotient of; a
\* zero divisor makes numpy yield nan or inf
Normalize(y) == [i \in 1..Len(y) |-> [num |-> y[i], den |-> SeqSum(y)]]

PlotOverlay(alg_results) ==
    [kind |-> "overlay",
     lines |-> [i \in 1..Len(alg_results) |->
                  [label |-> alg_results[i].meta.algorithm,
                   k |-> alg_results[i].k,
                   y_plot |-> Normalize(alg_results[i].y)]]]

\* main, lines 173-179: the k-range of every algorithm cut to the minimum last k
AlignOverlayNoCut(overlay_data) == overlay_data

AlignOverlay(overlay_data) ==
    LET min_max_k == SeqMin([i \in 1..Len(overlay_data) |->
                               overlay_data[i].k[Len(overlay_data[i].k)]])
    IN  [i \in 1..Len(overlay_data) |->
           LET e == overlay_data[i]
           IN  IF e.k[Len(e.k)] > min_max_k
               THEN [meta |-> e.meta,
                     k |-> PySliceTo(e.k, min_max_k + 1),
                     y |-> PySliceTo(e.y, min_max_k + 1)]
               ELSE e]

(***************************************************************************)
(* The environment of a run.                                               *)
(***************************************************************************)
\* Directory entries are numbered in the lexicographic order of their names;
\* entry 0 is a file whose name does not match *.meta.json.
MatchesMetaGlob(p) == p >= 1

RunDir == "run_dir"
OutDir == <<RunDir, "plots">>

AlgNames == {<<97, 32, 98>>, <<97, 95, 98>>, <<99>>}    \* "a b", "a_b", "c"

\* the bytes of a 32-bit integer as the test that exports the counts writes them
EncodeWord(v, big) ==
    LET b0 == v % 256
        b1 == (v \div 256) % 256
        b2 == (v \div 65536) % 256
        b3 == (v \div 16777216) % 256
    IN  IF big THEN <<b3, b2, b1, b0>> ELSE <<b0, b1, b2, b3>>

RECURSIVE ToFile(_, _)
ToFile(counts, big) ==
    IF counts = <<>> THEN <<>>
    ELSE EncodeWord(Head(counts), big) \o ToFile(Tail(counts), big)

\* a metadata file and the counts file it names, as the exporting test writes
\* them: little-endian counts; the declared numBuckets may differ from the file
DriverFiles ==
    {[meta |-> [algorithm |-> a, numBuckets |-> nb, numInputs |-> SeqSum(c),
                endianness |-> <<StrLittle>>],
      bin |-> ToFile(c, FALSE)] :
        a \in AlgNames, nb \in 1..MaxBuckets,
        c \in SeqsUpTo(0..MaxCount, 0, MaxBuckets)}

RECURSIVE SortedSeq(_)
\* sorted(...) of a set of directory entries
SortedSeq(S) ==
    IF S = {} THEN <<>>
    ELSE LET m == CHOOSE x \in S : \A z \in S : x <= z
         IN  <<m>> \o SortedSeq(S \ {m})

\* glob.glob lists the matching entries in an arbitrary order
GlobListings(entries) ==
    LET S == {p \in entries : MatchesMetaGlob(p)}
    IN  {g \in [1..Cardinality(S) -> S] : \A p \in S : \E i \in DOMAIN g : g[i] = p}

SortedList(g) == SortedSeq({g[i] : i \in DOMAIN g})

(***************************************************************************)
(* State.                                                                  *)
(***************************************************************************)
VARIABLES
    pc,            \* position in main, "done" or "failed" after it ended
    dirExists,     \* run_dir.exists()
    dirEntries,    \* the entries of run_dir
    args,          \* parsed command line: max_k (optional), overlay
    hostBig,       \* TRUE on a big-endian host
    meta_files,    \* main's sorted list of metadata files
    idx,           \* position of the for loop in meta_files
    loading,       \* the metadata and counts file opened by the last load_algorithm
    cur,           \* locals of the loop body: meta, counts, k, y
    overlay_data,  \* main's overlay_data
    aligned,       \* main's aligned, <<>> until it is built
    outDirMade,    \* the plots directory was created by this run
    plots,         \* image files written by this run: name -> image
    calls,         \* the calls main has made, in order, with their arguments
    stdout,        \* what was printed
    stderr,        \* the message of the exception that ended the run
    exit_status,   \* <<>> while running, then <<status>>
    u              \* the call under study of the function-level specifications

driverVars == <<pc, dirExists, dirEntries, args, meta_files, idx, loading, cur,
                overlay_data, aligned, outDirMade, plots, calls, stdout,
                stderr, exit_status>>

vars == <<driverVars, hostBig, u>>

NoImages == [n \in {} |-> 0]

WriteFile(dir, name, image) ==
    [n \in (DOMAIN dir) \cup {name} |-> IF n = name THEN image ELSE dir[n]]

MaxKArgs == {<<>>} \cup {<<m>> : m \in (-1)..MaxCount}

(***************************************************************************)
(* main                                                                    *)
(***************************************************************************)
NotStarted ==
    /\ pc = "start"
    /\ meta_files = <<>>
    /\ idx = 0
    /\ loading = <<>>
    /\ cur = <<>>
    /\ overlay_data = <<>>
    /\ aligned = <<>>
    /\ outDirMade = FALSE
    /\ plots = NoImages
    /\ calls = <<>>
    /\ stdout = <<>>
    /\ stderr = <<>>
    /\ exit_status = <<>>

\* The counts files of DriverFiles declare "little", so the byte order of the
\* host is never consulted by a run: it is fixed here and free in SpecLoad.
Init ==
    /\ NotStarted
    /\ dirExists \in BOOLEAN
    /\ dirEntries \in IF dirExists THEN {0..n : n \in 0..MaxFiles} \cup {{}}
                      ELSE {{}}
    /\ args \in [max_k : MaxKArgs, overlay : BOOLEAN]
    /\ hostBig = FALSE
    /\ u = <<>>

\* an uncaught exception or SystemExit(message): message on stderr, status 1
Raise(error) ==
    /\ pc' = "failed"
    /\ stderr' = error
    /\ exit_status' = <<1>>

CheckDirSkipped ==
    /\ pc = "start"
    /\ pc' = "glob"
    /\ UNCHANGED <<dirExists, dirEntries, args, hostBig, meta_files, idx, loading,
                   cur, overlay_data, aligned, outDirMade, plots, calls, stdout,
                   stderr, exit_status, u>>

\* lines 150-152
CheckDir ==
    /\ pc = "start"
    /\ IF ~dirExists
       THEN Raise([exc |-> "SystemExit", what |-> "Directory not found", dir |-> RunDir])
       ELSE /\ pc' = "glob"
            /\ UNCHANGED <<stderr, exit_status>>
    /\ UNCHANGED <<dirExists, dirEntries, args, hostBig, meta_files, idx, loading,
                   cur, overlay_data, aligned, outDirMade, plots, calls, stdout, u>>

\* lines 154-156
Discover ==
    /\ pc = "glob"
    /\ \E g \in GlobListings(dirEntries) :
         /\ meta_files' = SortedList(g)
         /\ IF meta_files' = <<>>
            THEN Raise([exc |-> "SystemExit", what |-> "No *.meta.json files found in",
                        dir |-> RunDir])
            ELSE /\ pc' = "mkdir"
                 /\ UNCHANGED <<stderr, exit_status>>
    /\ UNCHANGED <<dirExists, dirEntries, args, hostBig, idx, loading, cur,
                   overlay_data, aligned, outDirMade, plots, calls, stdout, u>>

\* lines 159-162
MakeOutDir ==
    /\ pc = "mkdir"
    /\ outDirMade' = TRUE
    /\ idx' = 1
    /\ pc' = "load"
    /\ UNCHANGED <<dirExists, dirEntries, args, hostBig, meta_files, loading, cur,
                   overlay_data, aligned, plots, calls, stdout, stderr,
                   exit_status, u>>

\* line 166
Load ==
    /\ pc = "load"
    /\ idx <= Len(meta_files)
    /\ \E f \in DriverFiles :
         LET r == LoadAlgorithm(meta_files[idx], f.meta, f.bin, hostBig)
         IN  /\ loading' = f
             /\ IF r.ok
                THEN /\ cur' = [meta |-> r.meta, counts |-> r.counts]
                     /\ pc' = "hist"
                     /\ UNCHANGED <<stderr, exit_status>>
                ELSE /\ Raise(r.error)
                     /\ UNCHANGED cur
    /\ calls' = Append(calls, <<"load_algorithm", meta_files[idx]>>)
    /\ UNCHANGED <<dirExists, dirEntries, args, hostBig, meta_files, idx,
                   overlay_data, aligned, outDirMade, plots, stdout, u>>

\* line 167
Hist ==
    /\ pc = "hist"
    /\ LET r == ComputeHist(cur.counts, args.max_k)
       IN  IF r.ok
           THEN /\ cur' = [meta |-> cur.meta, k |-> r.k, y |-> r.y]
                /\ pc' = "plot"
                /\ UNCHANGED <<stderr, exit_status>>
           ELSE /\ Raise(r.error)
                /\ UNCHANGED cur
    /\ calls' = Append(calls, <<"compute_hist", meta_files[idx]>>)
    /\ UNCHANGED <<dirExists, dirEntries, args, hostBig, meta_files, idx, loading,
                   overlay_data, aligned, outDirMade, plots, stdout, u>>

PlotNotSaved ==
    /\ pc = "plot"
    /\ LET r == PlotPerAlgorithm(cur.meta, cur.k, cur.y)
       IN  IF r.ok
           THEN /\ overlay_data' = Append(overlay_data, cur)
                /\ idx' = idx + 1
                /\ cur' = <<>>
                /\ loading' = <<>>
                /\ pc' = IF idx < Len(meta_files) THEN "load"
                         ELSE IF args.overlay THEN "overlay" ELSE "print"
                /\ UNCHANGED <<stderr, exit_status>>
           ELSE /\ Raise(r.error)
                /\ UNCHANGED <<overlay_data, idx, cur, loading>>
    /\ calls' = Append(calls, <<"plot_per_algorithm", meta_files[idx], cur.meta>>)
    /\ UNCHANGED <<dirExists, dirEntries, args, hostBig, meta_files, aligned,
                   outDirMade, stdout, u, plots>>

\* lines 168-169, and the end of the for loop
Plot ==
    /\ pc = "plot"
    /\ LET r == PlotPerAlgorithm(cur.meta, cur.k, cur.y)
       IN  IF r.ok
           THEN /\ plots' = WriteFile(plots, r.name, r.image)
                /\ overlay_data' = Append(overlay_data, cur)
                /\ idx' = idx + 1
                /\ cur' = <<>>
                /\ loading' = <<>>
                /\ pc' = IF idx < Len(meta_files) THEN "load"
                         ELSE IF args.overlay THEN "overlay" ELSE "print"
                /\ UNCHANGED <<stderr, exit_status>>
           ELSE /\ Raise(r.error)
                /\ UNCHANGED <<plots, overlay_data, idx, cur, loading>>
    /\ calls' = Append(calls, <<"plot_per_algorithm", meta_files[idx], cur.meta>>)
    /\ UNCHANGED <<dirExists, dirEntries, args, hostBig, meta_files, aligned,
                   outDirMade, stdout, u>>

\* lines 171-180
Overlay ==
    /\ pc = "overlay"
    /\ aligned' = AlignOverlay(overlay_data)
    /\ plots' = WriteFile(plots, StrOverlayPng, PlotOverlay(aligned'))
    /\ calls' = Append(calls, <<"plot_overlay">>)
    /\ pc' = "print"
    /\ UNCHANGED <<dirExists, dirEntries, args, hostBig, meta_files, idx, loading,
                   cur, overlay_data, outDirMade, stdout, stderr, exit_status, u>>

\* line 182 and the normal end of the process
PrintDone ==
    /\ pc = "print"
    /\ stdout' = <<"Done. Plots written to:", OutDir>>
    /\ exit_status' = <<0>>
    /\ pc' = "done"
    /\ UNCHANGED <<dirExists, dirEntries, args, hostBig, meta_files, idx, loading,
                   cur, overlay_data, aligned, outDirMade, plots, calls, stderr, u>>

Next ==
    \/ CheckDir
    \/ Discover
    \/ MakeOutDir
    \/ Load
    \/ Hist
    \/ Plot
    \/ Overlay
    \/ PrintDone

Spec == Init /\ [][Next]_vars

(***************************************************************************)
(* Properties of a run of main.                                            *)
(***************************************************************************)
Last(q) == q[Len(q)]

\* the counts array of a file differs in length from the declared numBuckets
LengthMismatch(f) == Len(f.bin) \div 4 # f.meta.numBuckets

MismatchError == pc = "failed" /\ stderr.exc = "ValueError" /\ "size" \in DOMAIN stderr

NoInputError == pc = "failed" /\ stderr.exc = "SystemExit"

CallsOn(p) == {c \in 1..Len(calls) : Len(calls[c]) >= 2 /\ calls[c][2] = p}

CallsOf(fn) == {c \in 1..Len(calls) : calls[c][1] = fn}

PerAlgorithmImages == DOMAIN plots \ {StrOverlayPng}

\* C3: when the counts array of the i-th metadata file (sorted order) differs in
\* length from its numBuckets, load_algorithm raises an error naming the observed
\* length, the declared numBuckets and the metadata path, and the run ends there:
\* no compute_hist or plot for file i, no call for a later file, no overlay, no
\* success message, exit status non-zero, and no further step is taken.
C3_MismatchAborts ==
    /\ (calls # <<>> /\ Last(calls)[1] = "load_algorithm" /\ LengthMismatch(loading))
         => /\ pc = "failed"
            /\ stderr = [exc |-> "ValueError",
                         size |-> Len(loading.bin) \div 4,
                         numBuckets |-> loading.meta.numBuckets,
                         path |-> meta_files[idx]]
            /\ stderr.size # stderr.numBuckets
            /\ Last(calls) = <<"load_algorithm", meta_files[idx]>>
            /\ CallsOn(meta_files[idx]) = {Len(calls)}
            /\ \A j \in (idx + 1)..Len(meta_files) : CallsOn(meta_files[j]) = {}
            /\ CallsOf("plot_overlay") = {}
            /\ Len(overlay_data) = idx - 1
            /\ aligned = <<>>
            /\ StrOverlayPng \notin DOMAIN plots
            /\ stdout = <<>>
            /\ exit_status = <<1>>
    /\ pc = "failed" => ~ENABLED Next

C3_Witness ==
    /\ MismatchError
    /\ idx = 1
    /\ Len(meta_files) = 2
    /\ LengthMismatch(loading)

\* C4: a missing results_dir, or one without any *.meta.json file, ends the run
\* with a non-zero status and a message naming the directory before anything
\* else is done: no plots directory, no load, no image, no success message; and
\* the existence check comes before the discovery.
C4_NoInputFailsFirst ==
    /\ pc \in {"start", "glob"}
         => ~outDirMade /\ calls = <<>> /\ plots = NoImages /\ stdout = <<>>
    /\ (pc \notin {"start", "glob"}
        /\ (~dirExists \/ {p \in dirEntries : MatchesMetaGlob(p)} = {}))
         => /\ pc = "failed"
            /\ exit_status = <<1>>
            /\ stderr.exc = "SystemExit"
            /\ stderr.dir = RunDir
            /\ ~outDirMade
            /\ calls = <<>>
            /\ plots = NoImages
            /\ stdout = <<>>
            /\ ~ENABLED Next
    /\ (pc = "failed" /\ ~dirExists)
         => stderr.what = "Directory not found" /\ meta_files = <<>>
    /\ (pc = "failed" /\ dirExists /\ calls = <<>>)
         => stderr.what = "No *.meta.json files found in"

C4_Witness ==
    /\ NoInputError
    /\ dirExists
    /\ dirEntries = {0}

\* C6: after a successful run over n metadata files the plots directory holds n
\* distinct per-algorithm images, the i-th file's image under the name
\* hist_<sanitized algorithm>.png; none was overwritten by another file's image.
\* Stated for the runs whose algorithm identifiers are pairwise different, where
\* every image belongs to an algorithm of its own.
C6_OneImagePerMetadataFile ==
    (/\ pc = "done"
     /\ \A i, j \in 1..Len(overlay_data) :
          i # j => overlay_data[i].meta.algorithm # overlay_data[j].meta.algorithm)
      => /\ Cardinality(PerAlgorithmImages) = Len(meta_files)
         /\ \A i \in 1..Len(overlay_data) :
              LET e == overlay_data[i]
                  name == PerAlgorithmName(e.meta.algorithm)
              IN  /\ name \in DOMAIN plots
                  /\ plots[name] = PlotPerAlgorithm(e.meta, e.k, e.y).image

\* C7: the tables given to plot_overlay all have the k-domain 0..m, m the minimum
\* of the last k of the algorithms' (capped) histograms; each is a prefix of the
\* algorithm's own histogram, and they are in the sorted order of the files.
C7_OverlayAligned ==
    CallsOf("plot_overlay") # {}
      => LET n == Len(meta_files)
             m == CHOOSE v \in {Last(overlay_data[i].k) : i \in 1..n} :
                    \A i \in 1..n : v <= Last(overlay_data[i].k)
             plotCalls == [i \in 1..n |->
                             CHOOSE c \in CallsOf("plot_per_algorithm") :
                               Cardinality({d \in CallsOf("plot_per_algorithm") : d < c})
                                 = i - 1]
         IN  /\ Len(overlay_data) = n
             /\ Len(aligned) = n
             /\ \A i \in 1..(n - 1) : meta_files[i] < meta_files[i + 1]
             /\ {meta_files[i] : i \in 1..n} = {p \in dirEntries : MatchesMetaGlob(p)}
             /\ \A i \in 1..n :
                  /\ calls[plotCalls[i]][2] = meta_files[i]
                  /\ calls[plotCalls[i]][3] = aligned[i].meta
                  /\ aligned[i].meta = overlay_data[i].meta
                  /\ aligned[i].k = [j \in 1..(m + 1) |-> j - 1]
                  /\ Len(aligned[i].y) = m + 1
                  /\ \A j \in 1..(m + 1) : aligned[i].y[j] = overlay_data[i].y[j]
             /\ plots[StrOverlayPng].lines =
                  [i \in 1..n |-> [label |-> aligned[i].meta.algorithm,
                                   k |-> aligned[i].k,
                                   y_plot |-> Normalize(aligned[i].y)]]

C7_Witness ==
    /\ pc = "done"
    /\ CallsOf("plot_overlay") # {}
    /\ \E i \in 1..Len(aligned) : Len(aligned[i].k) < Len(overlay_data[i].k)

\* C8: in the overlay chart the value plotted for an algorithm at k is
\* frequency[k] / numBuckets, with a divisor that is never zero, also when the
\* table was shortened by --max-k or by the alignment.
C8_FractionOfBuckets ==
    StrOverlayPng \in DOMAIN plots
      => \A i \in 1..Len(aligned) :
           LET line == plots[StrOverlayPng].lines[i]
           IN  \A j \in 1..Len(line.y_plot) :
                 /\ line.y_plot[j].den # 0
                 /\ line.y_plot[j].num * aligned[i].meta.numBuckets
                      = aligned[i].y[j] * line.y_plot[j].den

\* C9 as stated: a run ended by a missing directory, by no metadata files or by
\* a counts-length mismatch has written no image file.
C9_NoImageAfterFatalError ==
    (NoInputError \/ MismatchError) => plots = NoImages

\* C9 amended: a run ended by a missing directory or by no metadata files has
\* written no image; a run ended by a counts-length mismatch in the i-th file
\* has written exactly the per-algorithm images of the files before i, which
\* all passed validation, and no overlay image.
C9_ImagesOnlyOfFilesBeforeFailure ==
    /\ NoInputError => plots = NoImages
    /\ MismatchError
         => /\ Len(overlay_data) = idx - 1
            /\ DOMAIN plots =
                 {PerAlgorithmName(overlay_data[i].meta.algorithm) : i \in 1..(idx - 1)}
            /\ \A c \in CallsOf("plot_per_algorithm") :
                 \E i \in 1..(idx - 1) : calls[c][2] = meta_files[i]

C9_Witness ==
    /\ MismatchError
    /\ idx = 2
    /\ plots # NoImages

(***************************************************************************)
(* compute_hist and load_algorithm called on their own: u holds the        *)
(* arguments of the call and, once it returned, its result.                *)
(***************************************************************************)
DriverIdle ==
    /\ NotStarted
    /\ dirExists = FALSE
    /\ dirEntries = {}
    /\ args = [max_k |-> <<>>, overlay |-> FALSE]

Returned == u.result # <<>>

HistMaxKArgs == {<<>>} \cup {<<m>> : m \in (-2)..(MaxHistCount + 1)}

InitHist ==
    /\ DriverIdle
    /\ hostBig = FALSE
    /\ u \in [fn : {"compute_hist"},
              counts : SeqsUpTo((-1)..MaxHistCount, 0, MaxHistLen),
              max_k : HistMaxKArgs,
              result : {<<>>}]

CallComputeHist ==
    /\ u.fn = "compute_hist"
    /\ ~Returned
    /\ u' = [u EXCEPT !.result = <<ComputeHist(u.counts, u.max_k)>>]
    /\ UNCHANGED <<driverVars, hostBig>>

NextHist == CallComputeHist

SpecHist == InitHist /\ [][NextHist]_vars

\* number of buckets of a counts array that hold exactly v items
Frequency(counts, v) == Cardinality({b \in 1..Len(counts) : counts[b] = v})

\* a counts array the histogram is defined for, and its largest count
ValidCounts(counts) == Len(counts) >= 1 /\ \A b \in 1..Len(counts) : counts[b] >= 0

Largest(counts) ==
    CHOOSE v \in {counts[b] : b \in 1..Len(counts)} :
      \A b \in 1..Len(counts) : counts[b] <= v

\* C1: without max_k, compute_hist of N >= 1 non-negative counts with largest
\* count M returns k = 0..M and frequency[k] = the number of buckets holding
\* exactly k items, so the frequencies sum to N.
C1_FullHistogram ==
    (Returned /\ u.max_k = <<>> /\ ValidCounts(u.counts))
      => LET r == u.result[1]
             M == Largest(u.counts)
         IN  /\ r.ok
             /\ r.k = [i \in 1..(M + 1) |-> i - 1]
             /\ Len(r.y) = M + 1
             /\ \A v \in 0..M : r.y[v + 1] = Frequency(u.counts, v)
             /\ SeqSum(r.y) = Len(u.counts)

C1_Witness ==
    /\ Returned
    /\ u.max_k = <<>>
    /\ ValidCounts(u.counts)
    /\ Len(u.counts) = 3
    /\ Len(u.result[1].y) = 3
    /\ u.result[1].y[2] = 0

\* C2: with 0 <= max_k < M the result has exactly max_k + 1 entries, k =
\* 0..max_k, each frequency the untruncated one: buckets holding more than max_k
\* items are dropped, not added to the last entry.  With max_k >= M the result
\* is the full table: the length is min(max_k, M) + 1.
C2_Truncation ==
    (Returned /\ u.max_k # <<>> /\ ValidCounts(u.counts) /\ u.max_k[1] >= 0)
      => LET r == u.result[1]
             M == Largest(u.counts)
             n == MinOf(u.max_k[1], M) + 1
         IN  /\ r.ok
             /\ r.k = [i \in 1..n |-> i - 1]
             /\ Len(r.y) = n
             /\ \A v \in 0..(n - 1) : r.y[v + 1] = Frequency(u.counts, v)
             /\ u.max_k[1] < M => SeqSum(r.y) < Len(u.counts)

C2_Witness ==
    /\ Returned
    /\ ValidCounts(u.counts)
    /\ u.max_k = <<1>>
    /\ Largest(u.counts) = 3
    /\ u.result[1].y = <<1, 1>>

\* values of the "endianness" key: missing, "little", "Little", "LITTLE_ENDIAN",
\* "big", "BIG", "bigendian", "native", "lit", " big"
EndiannessValues ==
    {<<>>,
     <<StrLittle>>,
     <<(<<76, 105, 116, 116, 108, 101>>)>>,
     <<(<<76, 73, 84, 84, 76, 69, 95, 69, 78, 68, 73, 65, 78>>)>>,
     <<StrBig>>,
     <<(<<66, 73, 71>>)>>,
     <<(<<98, 105, 103, 101, 110, 100, 105, 97, 110>>)>>,
     <<(<<110, 97, 116, 105, 118, 101>>)>>,
     <<(<<108, 105, 116>>)>>,
     <<(<<32, 98, 105, 103>>)>>}

ByteValues == {0, 1, 255}

InitLoad ==
    /\ DriverIdle
    /\ hostBig \in BOOLEAN
    /\ u \in [fn : {"load_algorithm"},
              meta_path : {1},
              meta : [algorithm : {<<99>>},
                      numBuckets : 0..(MaxWords + 1),
                      numInputs : {0},
                      endianness : EndiannessValues],
              bin : SeqsUpTo(ByteValues, 0, 4 * MaxWords),
              result : {<<>>}]

CallLoadAlgorithm ==
    /\ u.fn = "load_algorithm"
    /\ ~Returned
    /\ u' = [u EXCEPT !.result = <<LoadAlgorithm(u.meta_path, u.meta, u.bin, hostBig)>>]
    /\ UNCHANGED <<driverVars, hostBig>>

NextLoad == CallLoadAlgorithm

SpecLoad == InitLoad /\ [][NextLoad]_vars

\* the byte order the metadata declares: big-endian when the lower-cased value
\* starts with "big", little-endian when it starts with "little", is missing or
\* is not recognized
DeclaredBig(meta) ==
    /\ meta.endianness # <<>>
    /\ ~StartsWith(Lower(meta.endianness[1]), StrLittle)
    /\ StartsWith(Lower(meta.endianness[1]), StrBig)

\* C5: load_algorithm decodes the counts file as 4-byte signed integers in the
\* byte order the metadata declares, little-endian when the value is missing or
\* unrecognized, whatever the byte order of the host.
C5_DeclaredByteOrder ==
    (Returned /\ u.fn = "load_algorithm" /\ u.result[1].ok)
      => u.result[1].counts =
           [i \in 1..(Len(u.bin) \div 4) |->
              DecodeWord(SubSeq(u.bin, 4 * i - 3, 4 * i), DeclaredBig(u.meta))]

(***************************************************************************)
(* Floating point.  A float is 0 or m * 2^e with MantBits significand bits *)
(* (2^(MantBits-1) <= m < 2^MantBits), as a double is with 53; results are *)
(* rounded to nearest, ties to even.  The exponent is unbounded: overflow  *)
(* and underflow are not modelled.                                         *)
(***************************************************************************)
FZero == [m |-> 0, e |-> 0]

RECURSIVE Normalize2(_, _, _)
\* (n / d) * 2^e rewritten with 2^(MantBits-1) <= n / d < 2^MantBits
Normalize2(n, d, e) ==
    IF n < d * Pow2(MantBits - 1) THEN Normalize2(2 * n, d, e - 1)
    ELSE IF n >= d * Pow2(MantBits) THEN Normalize2(n, 2 * d, e + 1)
    ELSE <<n, d, e>>

\* the float nearest to (n / d) * 2^e, n >= 0, d > 0
RoundToFloat(n, d, e) ==
    IF n = 0 THEN FZero
    ELSE LET t == Normalize2(n, d, e)
             q == t[1] \div t[2]
             r == t[1] % t[2]
             up == (2 * r > t[2]) \/ (2 * r = t[2] /\ q % 2 = 1)
             m == IF up THEN q + 1 ELSE q
         IN  IF m = Pow2(MantBits) THEN [m |-> Pow2(MantBits - 1), e |-> t[3] + 1]
             ELSE [m |-> m, e |-> t[3]]

FromInt(n) == RoundToFloat(n, 1, 0)               \* float(n)
IntDiv(a, b) == RoundToFloat(a, b, 0)             \* a / b of two ints
FMul(a, b) == RoundToFloat(a.m * b.m, 1, a.e + b.e)
FDiv(a, b) == RoundToFloat(a.m, b.m, a.e - b.e)

\* a float as the fraction num / den
Num(f) == IF f.e >= 0 THEN f.m * Pow2(f.e) ELSE f.m
Den(f) == IF f.e >= 0 THEN 1 ELSE Pow2(0 - f.e)

\* the least integer n with f <= n
CeilOf(f) == (Num(f) + Den(f) - 1) \div Den(f)

\* math.exp(-lam) for lam >= 0: 1.0 for lam = 0; for lam > 0 some float in
\* (0, 1] that is, up to one rounding, between max(1 - lam, 4^-ceil(lam)) and
\* 1 / (1 + lam), which bracket e^-lam
ExpNeg(lam) ==
    IF lam.m = 0 THEN {FromInt(1)}
    ELSE LET U == Pow2(MantBits)
             c == CeilOf(lam)
         IN  {p \in [m : Pow2(MantBits - 1)..(Pow2(MantBits) - 1),
                     e : (0 - MantBits - 2 * c)..(1 - MantBits)] :
                /\ Num(p) <= Den(p)
                /\ Num(p) * (Den(lam) + Num(lam)) * U <= (U + 1) * Den(p) * Den(lam)
                /\ Num(p) * Den(lam) * U >= (Den(lam) - Num(lam)) * (U - 1) * Den(p)
                /\ Num(p) * Pow2(2 * c) * U >= (U - 1) * Den(p)}

(***************************************************************************)
(* poisson_expected_counts; exp_neg_lam is what math.exp(-lam) returned    *)
(***************************************************************************)
RECURSIVE PoissonP(_, _, _)
\* the value of p after k rounds of the loop
PoissonP(k, lam, exp_neg_lam) ==
    IF k = 0 THEN exp_neg_lam
    ELSE FDiv(FMul(PoissonP(k - 1, lam, exp_neg_lam), lam), FromInt(k))

RECURSIVE PoissonPNoDivide(_, _, _)
PoissonPNoDivide(k, lam, exp_neg_lam) ==
    IF k = 0 THEN exp_neg_lam
    ELSE FMul(PoissonPNoDivide(k - 1, lam, exp_neg_lam), lam)

PoissonNoDivide(max_k, lam, num_buckets, exp_neg_lam) ==
    [i \in 1..(max_k + 1) |->
       FMul(PoissonPNoDivide(i - 1, lam, exp_neg_lam), FromInt(num_buckets))]

PoissonExpectedCounts(max_k, lam, num_buckets, exp_neg_lam) ==
    [i \in 1..(max_k + 1) |->
       FMul(PoissonP(i - 1, lam, exp_neg_lam), FromInt(num_buckets))]

\* plot_per_algorithm, lines 81-89: the curve drawn over the histogram k
PoissonOfPlot(meta, k, exp_neg_lam) ==
    PoissonExpectedCounts(SeqMax(k), IntDiv(meta.numInputs, meta.numBuckets),
                          meta.numBuckets, exp_neg_lam)

LamValues == {IntDiv(a, b) : a \in 0..MaxPoissonN, b \in 1..MaxPoissonN}

InitPoisson ==
    /\ DriverIdle
    /\ hostBig = FALSE
    /\ \/ u \in [fn : {"poisson_expected_counts"},
                 max_k : 0..MaxPoissonK,
                 lam : LamValues,
                 num_buckets : 0..MaxPoissonN,
                 result : {<<>>}]
       \/ u \in [fn : {"plot_per_algorithm"},
                 meta : [algorithm : {<<99>>},
                         numBuckets : 1..MaxPoissonN,
                         numInputs : 0..MaxPoissonN,
                         endianness : {<<>>}],
                 k : {Arange(n) : n \in 1..(MaxPoissonK + 1)},
                 result : {<<>>}]

CallPoisson ==
    /\ u.fn = "poisson_expected_counts"
    /\ ~Returned
    /\ \E p0 \in ExpNeg(u.lam) :
         u' = [u EXCEPT !.result =
                 <<PoissonExpectedCounts(u.max_k, u.lam, u.num_buckets, p0)>>]
    /\ UNCHANGED <<driverVars, hostBig>>

CallPlotPoisson ==
    /\ u.fn = "plot_per_algorithm"
    /\ ~Returned
    /\ \E p0 \in ExpNeg(IntDiv(u.meta.numInputs, u.meta.numBuckets)) :
         u' = [u EXCEPT !.result = <<PoissonOfPlot(u.meta, u.k, p0)>>]
    /\ UNCHANGED <<driverVars, hostBig>>

NextPoisson == CallPoisson \/ CallPlotPoisson

SpecPoisson == InitPoisson /\ [][NextPoisson]_vars

\* the arguments of the poisson_expected_counts call that u made
CallMaxK == IF u.fn = "plot_per_algorithm" THEN SeqMax(u.k) ELSE u.max_k
CallLam == IF u.fn = "plot_per_algorithm"
           THEN IntDiv(u.meta.numInputs, u.meta.numBuckets) ELSE u.lam
CallN == IF u.fn = "plot_per_algorithm" THEN u.meta.numBuckets ELSE u.num_buckets

\* a * x <= b * y for floats x, y and integers a, b >= 0
ScaledLeq(a, x, b, y) ==
    LET lo == MinOf(x.e, y.e)
    IN  a * x.m * Pow2(x.e - lo) <= b * y.m * Pow2(y.e - lo)

\* the two sides of the recurrence at k, exactly: expected(k+1) * (k+1) and
\* expected(k) * lam
RecLeft(y_exp, k) == [m |-> y_exp[k + 2].m * (k + 1), e |-> y_exp[k + 2].e]
RecRight(y_exp, k, lam) == [m |-> y_exp[k + 1].m * lam.m, e |-> y_exp[k + 1].e + lam.e]

PoissonLengthAndZeroRate ==
    LET y_exp == u.result[1]
    IN  /\ Len(y_exp) = CallMaxK + 1
        /\ u.fn = "plot_per_algorithm" => DOMAIN y_exp = DOMAIN u.k
        /\ CallLam.m = 0
             => /\ Num(y_exp[1]) = CallN * Den(y_exp[1])
                /\ \A k \in 1..CallMaxK : y_exp[k + 1].m = 0

=============================================================================
